---- MODULE Spec2Model ----
(***************************************************************************)
(* FlagFlow: the investigation streaming routes (investigate-context and   *)
(* investigate), the home page's context collection (Home and              *)
(* AMLQuestionFlow) and the client's investigation store and stream hook.  *)
(*                                                                         *)
(* Spec          the server routes: POST handlers and their timer callbacks *)
(* SpecSingle    one request to the routes, with a wide vocabulary         *)
(* SpecHome      the home page: follow-up request, question flow, launch   *)
(* SpecFollowUp  the follow-up route: validation, generator, session ids   *)
(* SpecStream    the stream hook reading the investigate route's streams   *)
(* SpecAggregate the risk aggregation the reports of the agents show       *)
(* SpecCanvas    the investigation canvas: its effect on the last message  *)
(* SpecReader    the read loop of startStream over a chunked response      *)
(***************************************************************************)
EXTENDS Integers, Sequences, FiniteSets, TLC

VARIABLES
    requests,       \* Spec: request slot -> state of the POST handler's stream
    home,           \* SpecHome: state of the home page (filled in below)
    server,         \* SpecFollowUp: clock and requests of the follow-up route
    hook,           \* SpecStream: state of one useAgentStream hook
    agg,            \* SpecAggregate: the tasks of one session and their sub-scores
    canvas,         \* SpecCanvas: the investigation canvas and the messages it sees
    reader          \* SpecReader: one startStream call reading its response in chunks

vars == <<requests, home, server, hook, agg, canvas, reader>>

(***************************************************************************)
(* Bounds of the model.                                                    *)
(***************************************************************************)
NumRequests == 2        \* POST requests the routes serve in one behaviour (Spec)
MaxAnswers == 2         \* answers a context carries (SpecSingle)

Requests == 1..NumRequests

\* Session ids a client sends along (opaque to the route).
SessionIds == <<"aml_1", "aml_2">>

\* Spec: queries and answer lists of concurrent requests.  The contexts
\* ("hello wallet", <<>>) and ("hello", <<"WALLET">>) give one session text.
Queries == {"hello", "hello wallet"}
AnswerLists == {<< >>, <<"WALLET">>}

\* SpecSingle: queries and answers of one request.
WideQueries ==
    {"hello", "Jurisdiction WALLET", "jurisdiction wallet", "Shell Company",
     "wire to CYPRUS", "payment method", ""}
AnswerWords == {"No history", "unusual split", "UNUSUAL SPLIT", "New Owner"}
WideAnswerLists == UNION {[1..n -> AnswerWords] : n \in 0..MaxAnswers}

\* Transaction lists posted to the investigate route (one description each).
TransactionLists == {<< >>, <<"Wallet 0xAB">>}

(***************************************************************************)
(* Strings: String.prototype.toLowerCase, Array.prototype.join and         *)
(* RegExp.prototype.test for an alternation of literal terms.              *)
(***************************************************************************)
UpperChars == "ABCDEFGHIJKLMNOPQRSTUVWXYZ"
LowerChars == "abcdefghijklmnopqrstuvwxyz"

CharAt(s, i) == SubSeq(s, i, i)

toLowerCaseChar(c) ==
    IF \E i \in 1..Len(UpperChars) : CharAt(UpperChars, i) = c
    THEN CharAt(LowerChars, CHOOSE i \in 1..Len(UpperChars) : CharAt(UpperChars, i) = c)
    ELSE c

RECURSIVE toLowerCase(_)
toLowerCase(s) ==
    IF Len(s) = 0 THEN ""
    ELSE toLowerCaseChar(CharAt(s, 1)) \o toLowerCase(SubSeq(s, 2, Len(s)))

RECURSIVE join(_, _)
join(parts, sep) ==
    IF Len(parts) = 0 THEN ""
    ELSE IF Len(parts) = 1 THEN parts[1]
    ELSE parts[1] \o sep \o join(Tail(parts), sep)

includes(text, term) ==
    \E i \in 1..(Len(text) - Len(term) + 1) : SubSeq(text, i, i + Len(term) - 1) = term

test(terms, text) == \E t \in terms : includes(text, t)

\* JSON.stringify of an array of strings.
stringify(list) ==
    "[" \o join([i \in 1..Len(list) |-> "\"" \o list[i] \o "\""], ",") \o "]"

(***************************************************************************)
(* The cascade decision of the investigate-context route: one alternation  *)
(* of literal terms per agent type, tested against the session text.       *)
(***************************************************************************)
AgentTypes == {"osint", "geo", "pattern", "chain"}

OsintTerms == {"entity", "company", "beneficiary", "owner", "shell"}
GeoTerms == {"jurisdiction", "country", "offshore", "geograph", "route", "corridor", "cyprus"}
PatternTerms == {"pattern", "structur", "typical", "unusual", "threshold", "split", "multiple"}
ChainTerms == {"btc", "eth", "usdt", "wallet", "address", "tx", "hash", "exchange",
               "crypto", "chain", "bridge", "mixer", "bc1", "0x"}

\* The answers joined as they were typed.
SessionText_AnswersAsTyped(query, answers) == join(<<toLowerCase(query)>> \o answers, " ")

\* const q = query.toLowerCase(); const text = [q, ...answers.map(a => a.toLowerCase())].join(' ')
SessionText(query, answers) ==
    join(<<toLowerCase(query)>> \o [i \in 1..Len(answers) |-> toLowerCase(answers[i])], " ")

wantOsint(text) == test(OsintTerms, text)
wantGeo(text) == test(GeoTerms, text)
wantPattern(text) == test(PatternTerms, text)

\* A module-level regular expression with the g flag: test() starts at the
\* lastIndex the previous match left, so every second matching call fails.
wantChain_SharedRegex(text) ==
    /\ test(ChainTerms, text)
    /\ Cardinality({r \in DOMAIN requests : requests[r].route = "context"
                                            /\ test(ChainTerms, requests[r].text)}) % 2 = 0
wantChain(text) == test(ChainTerms, text)

\* const cryptoHint = /(btc|eth|...)/.test(JSON.stringify(transactions).toLowerCase())
cryptoHint(transactions) == test(ChainTerms, toLowerCase(stringify(transactions)))

(***************************************************************************)
(* Stream events (the objects handed to send) and timers (setTimeout).     *)
(* An absent field of an event is the empty string.                        *)
(***************************************************************************)
NoEvent ==
    [type |-> "", agentType |-> "", parentId |-> "", agentId |-> "", status |-> "",
     findings |-> "", riskLevel |-> "", message |-> ""]

StatusEvent(message) == [NoEvent EXCEPT !.type = "status", !.message = message]

SpawnEvent(agentType) ==
    [NoEvent EXCEPT !.type = "spawn_agent", !.agentType = agentType, !.parentId = "orchestrator"]

UpdateEvent(agentId, status, findings, riskLevel) ==
    [NoEvent EXCEPT !.type = "agent_update", !.agentId = agentId, !.status = status,
                    !.findings = findings, !.riskLevel = riskLevel]

CompleteMessage == "Investigation complete"

Timer(at, seq, cb, event) == [at |-> at, seq |-> seq, cb |-> cb, event |-> event]

InitialDelay == 500
SpawnDelayStep == 350

\* The timers start(controller) of the investigate-context route sets, in
\* the order of its setTimeout calls; every deadline reads delay as it is
\* when the call is made.
ContextTimers(text, delay) ==
    (IF wantOsint(text) THEN {Timer(delay, 1, "spawn", SpawnEvent("osint"))} ELSE {})
    \cup (IF wantGeo(text) THEN {Timer(delay + 200, 2, "spawn", SpawnEvent("geo"))} ELSE {})
    \cup (IF wantPattern(text) THEN {Timer(delay + 400, 3, "spawn", SpawnEvent("pattern"))} ELSE {})
    \cup (IF wantChain(text) THEN {Timer(delay + 600, 4, "spawn", SpawnEvent("chain"))} ELSE {})
    \cup {Timer(delay + 800, 5, "update",
                UpdateEvent("osint", "collecting", "Beneficiary cross-referenced with company registry", "")),
          Timer(delay + 1200, 6, "update",
                UpdateEvent("geo", "analyzing", "Jurisdiction risk flagged by internal model", "")),
          Timer(delay + 1600, 7, "update",
                UpdateEvent("pattern", "flagged", "Transaction pattern deviates from baseline", "elevated"))}
    \cup (IF wantChain(text)
          THEN {Timer(delay + 1800, 8, "update",
                      UpdateEvent("chain", "tracing", "Outbound to high-risk cluster via bridge", "high"))}
          ELSE {})
    \cup {Timer(delay + 2000, 9, "complete", StatusEvent(CompleteMessage))}

\* The timers start(controller) of the investigate route sets.
InvestigateTimers(transactions) ==
    {Timer(500, 1, "spawn", SpawnEvent("osint")),
     Timer(900, 2, "spawn", SpawnEvent("geo")),
     Timer(1300, 3, "spawn", SpawnEvent("pattern"))}
    \cup (IF cryptoHint(transactions) THEN {Timer(1600, 4, "spawn", SpawnEvent("chain"))} ELSE {})
    \cup {Timer(1700, 5, "update",
                UpdateEvent("osint", "collecting", "Entity mentions found in public records", "")),
          Timer(2100, 6, "update",
                UpdateEvent("geo", "analyzing", "Route intersects high-risk corridor", "")),
          Timer(2500, 7, "update",
                UpdateEvent("pattern", "flagged", "Structuring pattern detected across accounts", "high"))}
    \cup (IF cryptoHint(transactions)
          THEN {Timer(2300, 8, "update",
                      UpdateEvent("chain", "tracing", "Clustered with exchange deposit addresses", "elevated"))}
          ELSE {})
    \cup {Timer(3000, 9, "complete", StatusEvent(CompleteMessage))}

\* An event loop that runs the timer with the latest deadline first.
NextTimer_LatestFirst(timers) ==
    CHOOSE t \in timers :
        \A u \in timers : t.at > u.at \/ (t.at = u.at /\ t.seq >= u.seq)

\* The timer the event loop runs next: the earliest deadline, and among
\* equal deadlines the one set first.
NextTimer(timers) ==
    CHOOSE t \in timers :
        \A u \in timers : t.at < u.at \/ (t.at = u.at /\ t.seq <= u.seq)

(***************************************************************************)
(* A request slot: the state of one POST and of the ReadableStream it      *)
(* answers with.                                                           *)
(***************************************************************************)
IdleRequest ==
    [route |-> "none", sessionId |-> "", query |-> "", answers |-> << >>,
     transactions |-> << >>, text |-> "", delay |-> 0, timers |-> {},
     enqueued |-> << >>, closed |-> FALSE, thrown |-> 0]

\* controller.enqueue(send(event)): a closed controller throws a TypeError,
\* which ends the callback that called it.
Enqueue(req, event) ==
    IF req.closed
    THEN [req EXCEPT !.thrown = @ + 1]
    ELSE [req EXCEPT !.enqueued = Append(@, event)]

\* Slots are taken in the order the requests arrive.
Arrives(r) ==
    /\ requests[r].route = "none"
    /\ r > 1 => requests[r - 1].route # "none"

\* POST /api/investigate-context: start(controller) runs to its end.
PostInvestigateContext(r, sessionId, query, answers) ==
    /\ Arrives(r)
    /\ LET text == SessionText(query, answers)
           started == Enqueue([IdleRequest EXCEPT !.route = "context",
                                                  !.sessionId = sessionId,
                                                  !.query = query,
                                                  !.answers = answers],
                              StatusEvent("Starting investigation: " \o query))
       IN requests' = [requests EXCEPT ![r] =
                          [started EXCEPT !.text = text,
                                          !.delay = InitialDelay,
                                          !.timers = ContextTimers(text, InitialDelay)]]
    /\ UNCHANGED <<home, server, hook, agg, canvas, reader>>

\* POST /api/investigate: start(controller) runs to its end.
PostInvestigate(r, transactions) ==
    /\ Arrives(r)
    /\ LET started == Enqueue([IdleRequest EXCEPT !.route = "investigate",
                                                  !.transactions = transactions],
                              StatusEvent("Starting investigation on "
                                          \o ToString(Len(transactions)) \o " transactions"))
       IN requests' = [requests EXCEPT ![r] =
                          [started EXCEPT !.timers = InvestigateTimers(transactions)]]
    /\ UNCHANGED <<home, server, hook, agg, canvas, reader>>

\* The spawn closure of the investigate-context route: enqueue, then
\* delay += 350; the investigate route's spawn callbacks only enqueue.
SpawnCallback(req, event) ==
    LET sent == Enqueue(req, event)
    IN IF req.route = "context" /\ ~req.closed
       THEN [sent EXCEPT !.delay = @ + SpawnDelayStep]
       ELSE sent

UpdateCallback(req, event) == Enqueue(req, event)

\* controller.close() before the closing status is enqueued.
CompleteCallback_CloseFirst(req, event) == Enqueue([req EXCEPT !.closed = TRUE], event)

\* The last callback: enqueue the closing status, then controller.close().
CompleteCallback(req, event) ==
    LET sent == Enqueue(req, event)
    IN IF req.closed THEN sent ELSE [sent EXCEPT !.closed = TRUE]

\* The next timer of request r is due and runs callback cb.
Due(r, cb) ==
    /\ requests[r].timers # {}
    /\ NextTimer(requests[r].timers).cb = cb

\* Request req once its next timer is gone, the callback having left it as ran.
Ran(req, ran) == [ran EXCEPT !.timers = @ \ {NextTimer(req.timers)}]

FireSpawn(r) ==
    /\ Due(r, "spawn")
    /\ requests' = [requests EXCEPT ![r] =
           Ran(requests[r], SpawnCallback(requests[r], NextTimer(requests[r].timers).event))]
    /\ UNCHANGED <<home, server, hook, agg, canvas, reader>>

FireUpdate(r) ==
    /\ Due(r, "update")
    /\ requests' = [requests EXCEPT ![r] =
           Ran(requests[r], UpdateCallback(requests[r], NextTimer(requests[r].timers).event))]
    /\ UNCHANGED <<home, server, hook, agg, canvas, reader>>

FireComplete(r) ==
    /\ Due(r, "complete")
    /\ requests' = [requests EXCEPT ![r] =
           Ran(requests[r], CompleteCallback(requests[r], NextTimer(requests[r].timers).event))]
    /\ UNCHANGED <<home, server, hook, agg, canvas, reader>>

(***************************************************************************)
(* The question generator behind POST /api/follow-up (utils/ai.ts).        *)
(***************************************************************************)
Question(question, options) == [question |-> question, options |-> options]

QuestionCount == 4      \* "Exactly 4 items, each with 4 options"
OptionCount == 4

\* What the Gemini call can come to: no API key, an exception (a timeout of
\* the call among them), a text with no JSON array in it, a text whose array
\* JSON.parse rejects, or a text whose array parses to a list.
GeminiReplies ==
    {[kind |-> "unavailable", parsed |-> << >>],
     [kind |-> "throws", parsed |-> << >>],
     [kind |-> "no-array", parsed |-> << >>],
     [kind |-> "bad-json", parsed |-> << >>],
     [kind |-> "array", parsed |-> << >>],
     [kind |-> "array", parsed |-> <<Question("g1", 4), Question("g2", 4), Question("g3", 4)>>],
     [kind |-> "array", parsed |-> <<Question("g1", 4), Question("g2", 4), Question("g3", 3),
                                     Question("g4", 4)>>],
     [kind |-> "array", parsed |-> <<Question("g1", 4), Question("g2", 4), Question("g3", 4),
                                     Question("g4", 4)>>]}

Null == [null |-> TRUE, questions |-> << >>]
Some(questions) == [null |-> FALSE, questions |-> questions]

\* generateDynamicAMLQuestions with the array length check left out.
generateDynamicAMLQuestions_AnyLength(reply) ==
    IF reply.kind # "array" THEN Null
    ELSE IF \A i \in 1..Len(reply.parsed) : reply.parsed[i].options = OptionCount
         THEN Some(reply.parsed)
         ELSE Null

\* generateDynamicAMLQuestions, for a reply that does not throw: null
\* unless the reply holds an array of 4 questions with 4 options each.
generateDynamicAMLQuestions(reply) ==
    IF reply.kind # "array" THEN Null
    ELSE IF Len(reply.parsed) # QuestionCount THEN Null
    ELSE IF \A i \in 1..Len(reply.parsed) : reply.parsed[i].options = OptionCount
         THEN Some(reply.parsed)
         ELSE Null

FallbackCryptoTerms ==
    {"btc", "eth", "usdt", "wallet", "address", "tx", "hash", "exchange", "crypto",
     "chain", "bridge", "mixer"}

deterministicFallback(query) ==
    IF test(FallbackCryptoTerms, toLowerCase(query))
    THEN <<Question("Which crypto context best matches this case?", 4),
           Question("What identifiers can you provide?", 4),
           Question("Is the value typical for this customer?", 4),
           Question("What is the stated purpose?", 4)>>
    ELSE <<Question("What type of suspicious activity is indicated?", 4),
           Question("Is the amount typical for this customer?", 4),
           Question("Counterparty risk profile?", 4),
           Question("Geographic considerations?", 4)>>

\* generateQuestionsWithGemini whose catch returns no questions.
generateQuestionsWithGemini_EmptyOnThrow(prompt, reply) ==
    IF reply.kind = "throws" THEN << >>
    ELSE LET dynamic == generateDynamicAMLQuestions(reply)
         IN IF dynamic.null THEN deterministicFallback(prompt) ELSE dynamic.questions

\* generateQuestionsWithGemini: dynamic if possible, fallback otherwise.
generateQuestionsWithGemini(prompt, reply) ==
    IF reply.kind = "throws" THEN deterministicFallback(prompt)
    ELSE LET dynamic == generateDynamicAMLQuestions(reply)
         IN IF dynamic.null THEN deterministicFallback(prompt) ELSE dynamic.questions

(***************************************************************************)
(* POST /api/follow-up: the body is parsed and validated, the questions    *)
(* are awaited from the generator, and the response carries a session id   *)
(* made of Date.now().                                                     *)
(***************************************************************************)
MaxFollowUps == 2       \* requests the follow-up route serves in one behaviour
MaxClock == 2           \* milliseconds the clock of the server advances

\* Request bodies: not JSON, JSON without a string question, a question.
FollowUpBodies ==
    {[kind |-> "invalid-json", question |-> ""],
     [kind |-> "no-question", question |-> ""],
     [kind |-> "question", question |-> ""],
     [kind |-> "question", question |-> "hello"],
     [kind |-> "question", question |-> "hello wallet"]}

NoReply == [kind |-> "", parsed |-> << >>]
NoResponse == [status |-> 0, session_id |-> "", questions |-> << >>, initial_query |-> ""]
ErrorResponse(status) == [NoResponse EXCEPT !.status = status]

\* `aml_${Date.now()}`
SessionId(now) == "aml_" \o ToString(now)

ServerIdle == [now |-> 0, followUps |-> << >>]

\* requestSchema.parse: question is a string of at least one character.
Valid(body) == body.kind = "question" /\ Len(body.question) >= 1

\* POST up to the await of the generator: request.json() throws on a body
\* that is not JSON (500), requestSchema.parse throws a ZodError (400).
PostFollowUp(body) ==
    /\ Len(server.followUps) < MaxFollowUps
    /\ server' = [server EXCEPT !.followUps = Append(@,
                     IF body.kind = "invalid-json"
                     THEN [body |-> body, state |-> "responded", reply |-> NoReply,
                           response |-> ErrorResponse(500)]
                     ELSE IF ~Valid(body)
                     THEN [body |-> body, state |-> "responded", reply |-> NoReply,
                           response |-> ErrorResponse(400)]
                     ELSE [body |-> body, state |-> "awaiting", reply |-> NoReply,
                           response |-> NoResponse])]
    /\ UNCHANGED <<requests, home, hook, agg, canvas, reader>>

\* The generator call of request i comes to reply: the questions are made
\* and the response is built, the session id from the clock as it is now.
GeneratorReturns(i, reply) ==
    /\ i \in 1..Len(server.followUps)
    /\ server.followUps[i].state = "awaiting"
    /\ LET question == server.followUps[i].body.question
       IN server' = [server EXCEPT !.followUps[i] =
                        [@ EXCEPT !.state = "responded",
                                  !.reply = reply,
                                  !.response =
                                      [status |-> 200,
                                       session_id |-> SessionId(server.now),
                                       questions |-> generateQuestionsWithGemini(question, reply),
                                       initial_query |-> question]]]
    /\ UNCHANGED <<requests, home, hook, agg, canvas, reader>>

\* A millisecond passes on the server.
ClockTick ==
    /\ server.now < MaxClock
    /\ server' = [server EXCEPT !.now = @ + 1]
    /\ UNCHANGED <<requests, home, hook, agg, canvas, reader>>

(***************************************************************************)
(* The home page: Home (currentView, session, isLoading), the question     *)
(* flow it renders (AMLQuestionFlow: isTransitioning, its two setTimeout   *)
(* calls), the investigation store and the stream hook of the canvas.      *)
(***************************************************************************)
MaxSessions == 2        \* initial queries submitted in one behaviour
MaxMessages == 1        \* messages one canvas receives from its streams

HomeQueries == {"USDT sent to new wallet"}
AnswerChoices == {"[SKIP]"}

\* Messages of the backend's stream (the backend is outside this repository).
BackendMessages == {[NoEvent EXCEPT !.type = "complete"]}

AnswerDelay == 300
LaunchDelay == 500

NoSession == [null |-> TRUE]
NoInvestigation == [null |-> TRUE]

HomeIdle ==
    [currentView |-> "input", session |-> NoSession, isLoading |-> FALSE,
     pendingQuery |-> "", created |-> 0,
     flowGen |-> 0, isTransitioning |-> FALSE, timers |-> << >>,
     investigation |-> NoInvestigation, started |-> 0,
     canvasGen |-> 0, isStreaming |-> FALSE, messages |-> << >>, streams |-> << >>]

\* Home renders AMLQuestionFlow, and the flow renders its question card.
FlowMounted(h) == h.currentView = "questions" /\ h.session # NoSession
\* Home renders InvestigationCanvas.
CanvasShown(h) == h.currentView = "investigation" /\ h.session # NoSession

\* useInvestigationStore.startInvestigation
startInvestigation(h) ==
    [h EXCEPT !.started = @ + 1,
              !.investigation = [id |-> h.started + 1, status |-> "running"]]

\* useAgentStream.startStream up to its fetch: setIsStreaming(true), setMessages([]).
startStream(h) ==
    [h EXCEPT !.isStreaming = TRUE, !.messages = << >>, !.streams = Append(@, "open")]

\* What follows the state updates of a handler: Home renders again, the
\* flow or the canvas is mounted or unmounted (a mounted component starts
\* from its initial state), and the canvas effect on [context] runs, the
\* context being a new object on every render of Home.
Commit(old, new) ==
    LET rendered == <<old.session, old.currentView, old.isLoading>>
                        # <<new.session, new.currentView, new.isLoading>>
        h1 == IF ~FlowMounted(new) THEN [new EXCEPT !.isTransitioning = FALSE]
              ELSE IF ~FlowMounted(old) THEN [new EXCEPT !.flowGen = @ + 1, !.isTransitioning = FALSE]
              ELSE new
        h2 == IF ~CanvasShown(new)
              THEN [h1 EXCEPT !.isStreaming = FALSE, !.messages = << >>, !.streams = << >>]
              ELSE IF ~CanvasShown(old)
              THEN [h1 EXCEPT !.canvasGen = @ + 1, !.isStreaming = FALSE, !.messages = << >>,
                              !.streams = << >>]
              ELSE h1
    IN IF CanvasShown(new) /\ rendered /\ new.session.initialQuery # ""
       THEN startStream(startInvestigation(h2))
       ELSE h2

RemoveAt(seq, i) == SubSeq(seq, 1, i - 1) \o SubSeq(seq, i + 1, Len(seq))

AnswerTimer(h, answer) ==
    [cb |-> "answer", remaining |-> AnswerDelay, answer |-> answer, gen |-> h.flowGen,
     isLastQuestion |-> (h.session.currentQuestionIndex = Len(h.session.questions) - 1),
     session |-> h.session]

LaunchTimer ==
    [cb |-> "launch", remaining |-> LaunchDelay, answer |-> "", gen |-> 0,
     isLastQuestion |-> FALSE, session |-> NoSession]

\* Timer i is due, and so is no timer of the same callback set before it.
DueAt(i, cb) ==
    /\ i \in 1..Len(home.timers)
    /\ home.timers[i].cb = cb
    /\ home.timers[i].remaining <= 0
    /\ \A j \in 1..(i - 1) : ~(home.timers[j].cb = cb /\ home.timers[j].remaining <= 0)

\* AMLChatInput.handleSubmit and Home.handleInitialQuery up to its fetch.
HandleSubmit(query) ==
    /\ home.currentView = "input"
    /\ ~home.isLoading
    /\ home.created < MaxSessions
    /\ home' = Commit(home, [home EXCEPT !.isLoading = TRUE, !.pendingQuery = query])
    /\ UNCHANGED <<requests, server, hook, agg, canvas, reader>>

\* POST /api/follow-up answers 200 and handleInitialQuery goes on.
FollowUpResponds(reply) ==
    /\ home.isLoading
    /\ LET questions == generateQuestionsWithGemini(home.pendingQuery, reply)
           session == [stage |-> 1, initialQuery |-> home.pendingQuery,
                       questions |-> questions, answers |-> << >>,
                       currentQuestionIndex |-> 0, sessionId |-> home.created + 1]
       IN home' = Commit(home, [home EXCEPT !.session = session,
                                            !.currentView = "questions",
                                            !.created = @ + 1,
                                            !.isLoading = FALSE,
                                            !.pendingQuery = ""])
    /\ UNCHANGED <<requests, server, hook, agg, canvas, reader>>

\* The fetch throws or answers 400 or 500: no session is set.
FollowUpFails ==
    /\ home.isLoading
    /\ home' = Commit(home, [home EXCEPT !.isLoading = FALSE, !.pendingQuery = ""])
    /\ UNCHANGED <<requests, server, hook, agg, canvas, reader>>

\* The question card of the flow is on the screen.
CardShown ==
    /\ FlowMounted(home)
    /\ home.session.currentQuestionIndex < Len(home.session.questions)
    /\ ~home.isTransitioning

\* AMLQuestionFlow.handleAnswer: an option, the skip button or the custom form.
ClickAnswer(answer) ==
    /\ CardShown
    /\ home' = [home EXCEPT !.isTransitioning = TRUE,
                            !.timers = Append(@, AnswerTimer(home, answer))]
    /\ UNCHANGED <<requests, server, hook, agg, canvas, reader>>

\* Home.handleAnswer, as the closure of the render the click was made in.
handleAnswer(session, answer) ==
    LET newAnswers == Append(session.answers, answer)
    IN IF session.currentQuestionIndex = Len(session.questions) - 1
       THEN [session EXCEPT !.answers = newAnswers, !.stage = 4]
       ELSE [session EXCEPT !.answers = newAnswers,
                            !.currentQuestionIndex = @ + 1,
                            !.stage = 2]

\* The 300 ms callback of AMLQuestionFlow.handleAnswer.
FireAnswer ==
    \E i \in 1..Len(home.timers) :
    /\ DueAt(i, "answer")
    /\ LET t == home.timers[i]
           rest == RemoveAt(home.timers, i)
           answered == [home EXCEPT
                           !.session = handleAnswer(t.session, t.answer),
                           !.isTransitioning =
                               IF FlowMounted(home) /\ t.gen = home.flowGen THEN FALSE ELSE @,
                           !.timers = IF t.isLastQuestion THEN Append(rest, LaunchTimer) ELSE rest]
       IN home' = Commit(home, answered)
    /\ UNCHANGED <<requests, server, hook, agg, canvas, reader>>

\* The 500 ms callback: Home.handleLaunchInvestigation.
FireLaunch ==
    \E i \in 1..Len(home.timers) :
    /\ DueAt(i, "launch")
    /\ home' = Commit(home, [home EXCEPT !.currentView = "investigation",
                                         !.timers = RemoveAt(@, i)])
    /\ UNCHANGED <<requests, server, hook, agg, canvas, reader>>

\* Home.handleReset
handleReset(h) == [h EXCEPT !.session = NoSession, !.currentView = "input"]

\* The X of the question card.
ClickClose ==
    /\ CardShown
    /\ home' = Commit(home, handleReset(home))
    /\ UNCHANGED <<requests, server, hook, agg, canvas, reader>>

\* The Back button of the canvas.
ClickBack ==
    /\ CanvasShown(home)
    /\ home' = Commit(home, handleReset(home))
    /\ UNCHANGED <<requests, server, hook, agg, canvas, reader>>

\* 100 ms pass; no timer is overdue.
Tick ==
    /\ home.timers # << >>
    /\ \A i \in 1..Len(home.timers) : home.timers[i].remaining > 0
    /\ home' = [home EXCEPT !.timers =
                   [i \in 1..Len(home.timers) |->
                       [home.timers[i] EXCEPT !.remaining = @ - 100]]]
    /\ UNCHANGED <<requests, server, hook, agg, canvas, reader>>

\* startStream reads a data line of one of the open streams, i: setMessages(prev => [...prev, data]).
StreamMessage(message) ==
    \E i \in 1..Len(home.streams) :
    /\ home.streams[i] = "open"
    /\ Len(home.messages) < MaxMessages
    /\ home' = [home EXCEPT !.messages = Append(@, message)]
    /\ UNCHANGED <<requests, server, hook, agg, canvas, reader>>

\* The reader of an open stream i is done: finally setIsStreaming(false).
StreamDone ==
    \E i \in 1..Len(home.streams) :
    /\ home.streams[i] = "open"
    /\ home' = [home EXCEPT !.streams[i] = "done", !.isStreaming = FALSE]
    /\ UNCHANGED <<requests, server, hook, agg, canvas, reader>>

\* The fetch or a read of an open stream i throws: an error message is appended.
StreamFail ==
    \E i \in 1..Len(home.streams) :
    /\ home.streams[i] = "open"
    /\ home' = [home EXCEPT !.streams[i] = "failed", !.isStreaming = FALSE,
                            !.messages = Append(@, [NoEvent EXCEPT !.type = "error"])]
    /\ UNCHANGED <<requests, server, hook, agg, canvas, reader>>

(***************************************************************************)
(* useAgentStream: one hook, the streams its startStream calls read and    *)
(* the messages it holds.  A stream is the body of the response of         *)
(* POST /investigate; the events of the route are read in the order the    *)
(* route enqueues them, each no sooner than the route has enqueued it, so  *)
(* the hook sees of a stream its event sequence and how far it has read.   *)
(***************************************************************************)
MaxStreams == 2         \* startStream calls of the hook in one behaviour
MaxObserved == 4        \* messages the hook holds at a time

\* Payloads of startStream: the two types the canvas passes.
Payloads ==
    {[type |-> "investigate", transactions |-> << >>],
     [type |-> "investigate_with_context", transactions |-> << >>]}

\* The body startStream posts: transactions only for the type investigate.
BodyTransactions(payload) ==
    IF payload.type = "investigate_with_context" THEN << >> ELSE payload.transactions

\* What the fetch resolves to: the event stream of the route, or a
\* response without a data line (the hook does not look at response.ok).
Responses == {"event-stream", "no-data"}

\* The events of timers in the order the event loop runs them.
RECURSIVE InOrder(_)
InOrder(timers) ==
    IF timers = {} THEN << >>
    ELSE <<NextTimer(timers).event>> \o InOrder(timers \ {NextTimer(timers)})

\* The events the investigate route enqueues, from the first to the close.
InvestigateEvents(transactions) ==
    <<StatusEvent("Starting investigation on " \o ToString(Len(transactions)) \o " transactions")>>
    \o InOrder(InvestigateTimers(transactions))

HookIdle == [isStreaming |-> FALSE, messages |-> << >>, streams |-> << >>]

\* startStream up to its fetch: setIsStreaming(true), setMessages([]).
HookStartStream(payload, response) ==
    /\ Len(hook.streams) < MaxStreams
    /\ hook' = [hook EXCEPT
                   !.isStreaming = TRUE,
                   !.messages = << >>,
                   !.streams = Append(@,
                       [events |-> IF response = "event-stream"
                                   THEN InvestigateEvents(BodyTransactions(payload))
                                   ELSE << >>,
                        read |-> 0, state |-> "open"])]
    /\ UNCHANGED <<requests, home, server, agg, canvas, reader>>

\* The loop of stream i reads a data line: setMessages(prev => [...prev, data]).
HookRead(i) ==
    /\ i \in 1..Len(hook.streams)
    /\ hook.streams[i].state = "open"
    /\ hook.streams[i].read < Len(hook.streams[i].events)
    /\ Len(hook.messages) < MaxObserved
    /\ hook' = [hook EXCEPT
                   !.messages = Append(@, hook.streams[i].events[hook.streams[i].read + 1]),
                   !.streams[i].read = @ + 1]
    /\ UNCHANGED <<requests, home, server, agg, canvas, reader>>

\* reader.read() of stream i reports done: finally setIsStreaming(false).
HookDone(i) ==
    /\ i \in 1..Len(hook.streams)
    /\ hook.streams[i].state = "open"
    /\ hook.streams[i].read = Len(hook.streams[i].events)
    /\ hook' = [hook EXCEPT !.streams[i].state = "done", !.isStreaming = FALSE]
    /\ UNCHANGED <<requests, home, server, agg, canvas, reader>>

\* The fetch or a read of stream i throws: the catch appends an error
\* message, finally setIsStreaming(false).
HookFail(i) ==
    /\ i \in 1..Len(hook.streams)
    /\ hook.streams[i].state = "open"
    /\ hook' = [hook EXCEPT !.streams[i].state = "failed",
                            !.isStreaming = FALSE,
                            !.messages = Append(@, [NoEvent EXCEPT !.type = "error",
                                                                   !.message = "Failed to fetch"])]
    /\ UNCHANGED <<requests, home, server, agg, canvas, reader>>

(***************************************************************************)
(* Risk aggregation.  The repository's agents write reports that state     *)
(* category scores, weights, an overall score, a recommendation and a      *)
(* confidence (the pattern detection report); the code that computes them  *)
(* is not among the sources, so the aggregation is written down as the     *)
(* specification gives it.  Scores are held in hundredths of a point       *)
(* (score x weight in percent) and thresholds in thousandths.              *)
(***************************************************************************)
\* The Risk Assessment Matrix of the pattern detection report and the
\* figures of its Executive Summary (weighted and total in hundredths).
ReportMatrix ==
    <<[category |-> "Transaction Patterns", score |-> 90, weight |-> 30, weighted |-> 2700],
      [category |-> "Behavioral Patterns", score |-> 85, weight |-> 25, weighted |-> 2125],
      [category |-> "Network Patterns", score |-> 80, weight |-> 25, weighted |-> 2000],
      [category |-> "Typology Scores", score |-> 85, weight |-> 20, weighted |-> 1700]>>
ReportTotal == 8275
ReportRecommendation == "file"
ReportConfidence == "High"
\* The percentage the report's Confidence Assessment gives with that level.
ReportConfidencePercent == 85

\* The static table from specialist kind to category (a row of the matrix).
Category(kind) ==
    CASE kind = "pattern" -> 1
      [] kind = "osint" -> 2
      [] kind = "geo" -> 3
      [] kind = "chain" -> 4

\* Weight tables, in percent: the report's, and four equal weights.
\* Weights read from the matrix's score column.
ReportWeights_ScoreColumn == [k \in AgentTypes |-> ReportMatrix[Category(k)].score]

ReportWeights == [k \in AgentTypes |-> ReportMatrix[Category(k)].weight]
EqualWeights == [k \in AgentTypes |-> 25]
WeightTables == {ReportWeights, EqualWeights}

\* Sub-scores a succeeded task reports.
SubScores == {80, 85, 90, 100}

TerminalStatuses == {"succeeded", "failed", "timed-out", "cancelled"}

NoTask == [status |-> "absent", score |-> 0]
AggIdle(weights) == [weights |-> weights, tasks |-> [k \in AgentTypes |-> NoTask]]

DispatchedTasks(a) == {k \in AgentTypes : a.tasks[k].status # "absent"}
SucceededTasks(a) == {k \in AgentTypes : a.tasks[k].status = "succeeded"}

\* The score of the category of kind k: the sub-score of its task if the
\* task succeeded, zero if the task is absent, running or failed.
CategoryScore(a, k) == IF a.tasks[k].status = "succeeded" THEN a.tasks[k].score ELSE 0

Clamp(x) == IF x < 0 THEN 0 ELSE IF x > 10000 THEN 10000 ELSE x

\* Overall score: the sum over the full weight table, clamped to [0,100].
OverallScore(a) ==
    Clamp(CategoryScore(a, "osint") * a.weights["osint"]
          + CategoryScore(a, "geo") * a.weights["geo"]
          + CategoryScore(a, "pattern") * a.weights["pattern"]
          + CategoryScore(a, "chain") * a.weights["chain"])

\* Confidence in percent: succeeded tasks over dispatched tasks.
Confidence(a) ==
    IF DispatchedTasks(a) = {} THEN 0
    ELSE (100 * Cardinality(SucceededTasks(a))) \div Cardinality(DispatchedTasks(a))

\* The level a confidence of p percent is reported as.
LevelOf(p) == IF p >= 90 THEN "High" ELSE IF p >= 50 THEN "Medium" ELSE "Low"

ConfidenceLevel(a) == LevelOf(Confidence(a))

\* Recommendation with the file threshold exclusive.
Recommendation_FileAbove(s) ==
    IF s > 75000 THEN "file" ELSE IF s >= 40000 THEN "monitor" ELSE "clear"

\* Recommendation for an overall score s, in thousandths of a point.
Recommendation(s) ==
    IF s >= 75000 THEN "file" ELSE IF s >= 40000 THEN "monitor" ELSE "clear"

\* IsFinal that waits for a timed-out task as for a running one.
IsFinal_TimedOutPending(a) ==
    \/ ConfidenceLevel(a) = "High"
    \/ \A k \in DispatchedTasks(a) : a.tasks[k].status \in TerminalStatuses \ {"timed-out"}

\* The recommendation is final: confidence is High or every dispatched
\* task is terminal.
IsFinal(a) ==
    \/ ConfidenceLevel(a) = "High"
    \/ \A k \in DispatchedTasks(a) : a.tasks[k].status \in TerminalStatuses

\* dispatch: a task of kind k is created and set running.
DispatchTask(k) ==
    /\ agg.tasks[k].status = "absent"
    /\ agg' = [agg EXCEPT !.tasks[k].status = "running"]
    /\ UNCHANGED <<requests, home, server, hook, canvas, reader>>

\* The task of kind k succeeds with a sub-score.
SucceedTask(k, score) ==
    /\ agg.tasks[k].status = "running"
    /\ agg' = [agg EXCEPT !.tasks[k] = [status |-> "succeeded", score |-> score]]
    /\ UNCHANGED <<requests, home, server, hook, canvas, reader>>

\* The task of kind k ends without a sub-score: failed, timed-out or cancelled.
EndTask(k, status) ==
    /\ agg.tasks[k].status = "running"
    /\ agg' = [agg EXCEPT !.tasks[k].status = status]
    /\ UNCHANGED <<requests, home, server, hook, canvas, reader>>

(***************************************************************************)
(* InvestigationCanvas: the nodes and edges of the canvas and the messages *)
(* of its stream hook.  The effect on [messages] runs once per render and  *)
(* looks at the last message; the setMessages calls made between two       *)
(* renders are applied together, so a render may see several new messages. *)
(***************************************************************************)
MaxChunk == 90          \* characters reader.read() yields at a time
MaxBatch == 2           \* messages appended between two runs of the effect
MaxCanvasClock == 3     \* readings of Date.now()

CanvasQueries == {"shell company", "offshore wallet", "shell company offshore", "hello"}

\* The events the investigate-context route enqueues for a context.
ContextEvents(query, answers) ==
    <<StatusEvent("Starting investigation: " \o query)>>
    \o InOrder(ContextTimers(SessionText(query, answers), InitialDelay))

Node(id, type, status, findings, riskLevel) ==
    [id |-> id, type |-> type, status |-> status, findings |-> findings, riskLevel |-> riskLevel]

initialNodes == <<Node("orchestrator", "orchestrator", "idle", "", "")>>

CanvasIdle ==
    [mounted |-> FALSE, events |-> << >>, messages |-> << >>,
     nodes |-> initialNodes, edges |-> << >>, now |-> 1]

\* The effect on [messages]: a spawn_agent adds a node whose id is the
\* agent type and Date.now() and an edge from its parent; an agent_update
\* changes the nodes whose id is the update's agentId.
CanvasEffect(c) ==
    IF c.messages = << >> THEN c
    ELSE LET lastMessage == c.messages[Len(c.messages)]
             parent == IF lastMessage.parentId = "" THEN "orchestrator" ELSE lastMessage.parentId
             newId == lastMessage.agentType \o "-" \o ToString(c.now)
         IN CASE lastMessage.type = "spawn_agent" ->
                   [c EXCEPT !.nodes = Append(@, Node(newId, lastMessage.agentType,
                                                      "initializing", "", "")),
                             !.edges = Append(@, [id |-> lastMessage.parentId \o "-" \o newId,
                                                  source |-> parent, target |-> newId])]
              [] lastMessage.type = "agent_update" ->
                   [c EXCEPT !.nodes =
                       [i \in 1..Len(c.nodes) |->
                           IF c.nodes[i].id = lastMessage.agentId
                           THEN [c.nodes[i] EXCEPT
                                    !.status = lastMessage.status,
                                    !.findings = IF lastMessage.findings = "" THEN @
                                                 ELSE lastMessage.findings,
                                    !.riskLevel = IF lastMessage.riskLevel = "" THEN @
                                                  ELSE lastMessage.riskLevel]
                           ELSE c.nodes[i]]]
              [] OTHER -> c

\* The canvas is shown with a context: startStream, setNodes(initialNodes),
\* setEdges([]).
MountCanvas(query) ==
    /\ ~canvas.mounted
    /\ canvas' = [canvas EXCEPT !.mounted = TRUE,
                                !.events = ContextEvents(query, << >>),
                                !.messages = << >>,
                                !.nodes = initialNodes,
                                !.edges = << >>]
    /\ UNCHANGED <<requests, home, server, hook, agg, reader>>

\* The hook appends the next n events of the stream; the canvas renders
\* and its effect runs.
CanvasReceives(n) ==
    /\ canvas.mounted
    /\ Len(canvas.messages) + n <= Len(canvas.events)
    /\ canvas' = CanvasEffect([canvas EXCEPT !.messages =
                     @ \o SubSeq(canvas.events, Len(canvas.messages) + 1, Len(canvas.messages) + n)])
    /\ UNCHANGED <<requests, home, server, hook, agg, reader>>

\* A millisecond passes.
CanvasTick ==
    /\ canvas.now < MaxCanvasClock
    /\ canvas' = [canvas EXCEPT !.now = @ + 1]
    /\ UNCHANGED <<requests, home, server, hook, agg, reader>>

(***************************************************************************)
(* The read loop of startStream.  The response body is the text the        *)
(* server's send calls produced, one after the other; reader.read() hands  *)
(* it over in chunks cut anywhere.  buffer carries the unfinished line     *)
(* from one chunk to the next.                                             *)
(***************************************************************************)
\* JSON.stringify of an event: its present fields, in the order written.
JSONstringify(e) ==
    LET field(name, value) == IF value = "" THEN << >>
                              ELSE <<"\"" \o name \o "\":\"" \o value \o "\"">>
        array(name, value) == IF value = "" THEN << >>
                              ELSE <<"\"" \o name \o "\":[\"" \o value \o "\"]">>
    IN "{" \o join(field("type", e.type) \o field("agentType", e.agentType)
                   \o field("parentId", e.parentId) \o field("agentId", e.agentId)
                   \o field("status", e.status) \o array("findings", e.findings)
                   \o field("riskLevel", e.riskLevel) \o field("message", e.message), ",")
       \o "}"

\* send(data) of the routes.
send(data) == "data: " \o JSONstringify(data) \o "\n\n"

\* The events a response body may carry.
ReaderEvents ==
    {StatusEvent("Starting investigation on 0 transactions"),
     SpawnEvent("osint"),
     UpdateEvent("osint", "collecting", "Entity mentions found in public records", ""),
     StatusEvent(CompleteMessage)}

\* JSON.parse: the event a text is the JSON of; any other text throws.
JSONvalid(text) == \E e \in ReaderEvents : JSONstringify(e) = text
JSONparse(text) == CHOOSE e \in ReaderEvents : JSONstringify(e) = text

\* A data line whose payload is not JSON, as a backend may send it.
BadLine == "data: {oops\n\n"

\* Response bodies: the parts the server wrote, each an event sent with
\* send or the bad line (event absent).
Sent(e) == [event |-> e, text |-> send(e)]
Bad == [event |-> NoEvent, text |-> BadLine]
ReaderBodies ==
    {<<Sent(StatusEvent("Starting investigation on 0 transactions")), Sent(SpawnEvent("osint")),
       Sent(StatusEvent(CompleteMessage))>>,
     <<Sent(SpawnEvent("osint")), Bad,
       Sent(UpdateEvent("osint", "collecting", "Entity mentions found in public records", "")),
       Sent(StatusEvent(CompleteMessage))>>,
     <<Bad, Sent(StatusEvent(CompleteMessage))>>}

\* The text of a body: its parts one after the other.
RECURSIVE Wire(_)
Wire(parts) == IF parts = << >> THEN "" ELSE Head(parts).text \o Wire(Tail(parts))

\* String.prototype.indexOf for one character; 0 when absent.
indexOf(text, c) ==
    IF \E i \in 1..Len(text) : CharAt(text, i) = c
    THEN CHOOSE i \in 1..Len(text) :
             CharAt(text, i) = c /\ \A j \in 1..(i - 1) : CharAt(text, j) # c
    ELSE 0

\* String.prototype.split('\n').
RECURSIVE split(_)
split(text) ==
    LET i == indexOf(text, "\n")
    IN IF i = 0 THEN <<text>>
       ELSE <<SubSeq(text, 1, i - 1)>> \o split(SubSeq(text, i + 1, Len(text)))

startsWith(line, prefix) ==
    Len(line) >= Len(prefix) /\ SubSeq(line, 1, Len(prefix)) = prefix

slice(line, n) == SubSeq(line, n + 1, Len(line))

\* A loop over the lines that gives up at the first payload that does not parse.
RECURSIVE AppendLines_StopAtBadLine(_, _)
AppendLines_StopAtBadLine(messages, lines) ==
    IF lines = << >> THEN messages
    ELSE LET line == Head(lines)
         IN IF startsWith(line, "data: ")
            THEN IF JSONvalid(slice(line, 6))
                 THEN AppendLines_StopAtBadLine(Append(messages, JSONparse(slice(line, 6))), Tail(lines))
                 ELSE messages
            ELSE AppendLines_StopAtBadLine(messages, Tail(lines))

\* for (const line of lines): a data line is parsed and appended, a parse
\* error is caught and the line skipped.
RECURSIVE AppendLines(_, _)
AppendLines(messages, lines) ==
    IF lines = << >> THEN messages
    ELSE LET line == Head(lines)
         IN IF startsWith(line, "data: ") /\ JSONvalid(slice(line, 6))
            THEN AppendLines(Append(messages, JSONparse(slice(line, 6))), Tail(lines))
            ELSE AppendLines(messages, Tail(lines))

\* buffer = lines.pop() || '' that forgets the unfinished line.
pop_Forgetful(lines) == ""

\* buffer = lines.pop() || '': the text after the last newline.
pop(lines) == lines[Len(lines)]

ErrorMessage(message) == [NoEvent EXCEPT !.type = "error", !.message = message]

ReaderIdle ==
    [state |-> "idle", parts |-> << >>, pos |-> 0, buffer |-> "",
     messages |-> << >>, isStreaming |-> FALSE]

\* startStream up to the fetch: setIsStreaming(true), setMessages([]).
ReaderStart(parts) ==
    /\ reader.state = "idle"
    /\ reader' = [reader EXCEPT !.state = "fetching", !.parts = parts,
                                !.isStreaming = TRUE, !.messages = << >>]
    /\ UNCHANGED <<requests, home, server, hook, agg, canvas>>

\* What the catch and the finally of startStream leave.
Caught(r, state, message) ==
    [r EXCEPT !.state = state, !.messages = Append(@, ErrorMessage(message)),
              !.isStreaming = FALSE]

\* fetch rejects.
ReaderFetchFails ==
    /\ reader.state = "fetching"
    /\ reader' = Caught(reader, "fetch-failed", "Failed to fetch")
    /\ UNCHANGED <<requests, home, server, hook, agg, canvas>>

\* The response has no body: throw new Error('No response body').
ReaderNoBody ==
    /\ reader.state = "fetching"
    /\ reader' = Caught(reader, "no-body", "No response body")
    /\ UNCHANGED <<requests, home, server, hook, agg, canvas>>

\* fetch resolves with a body: getReader(), buffer = ''.
ReaderResponds ==
    /\ reader.state = "fetching"
    /\ reader' = [reader EXCEPT !.state = "reading", !.buffer = ""]
    /\ UNCHANGED <<requests, home, server, hook, agg, canvas>>

\* One turn of the loop: reader.read() yields the next n characters.
ReaderRead(n) ==
    /\ reader.state = "reading"
    /\ reader.pos + n <= Len(Wire(reader.parts))
    /\ LET value == SubSeq(Wire(reader.parts), reader.pos + 1, reader.pos + n)
           lines == split(reader.buffer \o value)
       IN reader' = [reader EXCEPT
                        !.pos = @ + n,
                        !.buffer = pop(lines),
                        !.messages = AppendLines(@, SubSeq(lines, 1, Len(lines) - 1))]
    /\ UNCHANGED <<requests, home, server, hook, agg, canvas>>

\* reader.read() reports done: break, finally setIsStreaming(false).
ReaderDone ==
    /\ reader.state = "reading"
    /\ reader.pos = Len(Wire(reader.parts))
    /\ reader' = [reader EXCEPT !.state = "done", !.isStreaming = FALSE]
    /\ UNCHANGED <<requests, home, server, hook, agg, canvas>>

\* reader.read() rejects: the connection broke.
ReaderReadFails ==
    /\ reader.state = "reading"
    /\ reader' = Caught(reader, "read-failed", "network error")
    /\ UNCHANGED <<requests, home, server, hook, agg, canvas>>

Init ==
    /\ requests = [r \in Requests |-> IdleRequest]
    /\ home = HomeIdle
    /\ server = ServerIdle
    /\ hook = HookIdle
    /\ agg = AggIdle(EqualWeights)
    /\ canvas = CanvasIdle
    /\ reader = ReaderIdle

\* The session ids request r may carry: ids are opaque, so the first
\* request's is called aml_1 and request r carries one of the first r.
IdsFor(r) == {SessionIds[i] : i \in 1..(IF r < Len(SessionIds) THEN r ELSE Len(SessionIds))}

Next ==
    \/ \E r \in Requests, q \in Queries, a \in AnswerLists :
           \E s \in IdsFor(r) : PostInvestigateContext(r, s, q, a)
    \/ \E r \in Requests, t \in TransactionLists : PostInvestigate(r, t)
    \/ \E r \in Requests : FireSpawn(r)
    \/ \E r \in Requests : FireUpdate(r)
    \/ \E r \in Requests : FireComplete(r)

Spec == Init /\ [][Next]_vars

\* One request, with the wide vocabulary.
NextSingle ==
    \/ \E q \in WideQueries, a \in WideAnswerLists :
           PostInvestigateContext(1, SessionIds[1], q, a)
    \/ \E t \in TransactionLists : PostInvestigate(1, t)
    \/ FireSpawn(1)
    \/ FireUpdate(1)
    \/ FireComplete(1)

SpecSingle == Init /\ [][NextSingle]_vars

NextHome ==
    \/ \E q \in HomeQueries : HandleSubmit(q)
    \/ \E reply \in GeminiReplies : FollowUpResponds(reply)
    \/ FollowUpFails
    \/ \E a \in AnswerChoices : ClickAnswer(a)
    \/ FireAnswer
    \/ FireLaunch
    \/ ClickClose
    \/ ClickBack
    \/ Tick
    \/ \E m \in BackendMessages : StreamMessage(m)
    \/ StreamDone
    \/ StreamFail

SpecHome == Init /\ [][NextHome]_vars

NextFollowUp ==
    \/ \E body \in FollowUpBodies : PostFollowUp(body)
    \/ \E i \in 1..MaxFollowUps, reply \in GeminiReplies : GeneratorReturns(i, reply)
    \/ ClockTick

SpecFollowUp == Init /\ [][NextFollowUp]_vars

NextStream ==
    \/ \E payload \in Payloads, response \in Responses : HookStartStream(payload, response)
    \/ \E i \in 1..MaxStreams : HookRead(i)
    \/ \E i \in 1..MaxStreams : HookDone(i)
    \/ \E i \in 1..MaxStreams : HookFail(i)

SpecStream == Init /\ [][NextStream]_vars

\* The weight table is configuration: any table, fixed from the start.
InitAggregate ==
    /\ requests = [r \in Requests |-> IdleRequest]
    /\ home = HomeIdle
    /\ server = ServerIdle
    /\ hook = HookIdle
    /\ agg \in {AggIdle(w) : w \in WeightTables}
    /\ canvas = CanvasIdle
    /\ reader = ReaderIdle

NextAggregate ==
    \/ \E k \in AgentTypes : DispatchTask(k)
    \/ \E k \in AgentTypes, score \in SubScores : SucceedTask(k, score)
    \/ \E k \in AgentTypes, status \in TerminalStatuses \ {"succeeded"} : EndTask(k, status)

SpecAggregate == InitAggregate /\ [][NextAggregate]_vars

NextCanvas ==
    \/ \E query \in CanvasQueries : MountCanvas(query)
    \/ \E n \in 1..MaxBatch : CanvasReceives(n)
    \/ CanvasTick

SpecCanvas == Init /\ [][NextCanvas]_vars

NextReader ==
    \/ \E parts \in ReaderBodies : ReaderStart(parts)
    \/ ReaderFetchFails
    \/ ReaderNoBody
    \/ ReaderResponds
    \/ \E n \in 1..MaxChunk : ReaderRead(n)
    \/ ReaderDone
    \/ ReaderReadFails

SpecReader == Init /\ [][NextReader]_vars


(***************************************************************************)
(* What the claims speak of, read off a request's stream.                  *)
(***************************************************************************)
Posted(r) == requests[r].route # "none"

\* The agent types of the spawn_agent events enqueued so far.
Spawned(r) ==
    {requests[r].enqueued[i].agentType :
        i \in {j \in 1..Len(requests[r].enqueued) : requests[r].enqueued[j].type = "spawn_agent"}}

\* The number of spawn_agent events for agent type k in the stream of r.
SpawnCount(r, k) ==
    Cardinality({i \in 1..Len(requests[r].enqueued) :
                    /\ requests[r].enqueued[i].type = "spawn_agent"
                    /\ requests[r].enqueued[i].agentType = k})

\* The dispatch set of a stream: spawned already, or still to be spawned.
Dispatched(r) ==
    Spawned(r) \cup {t.event.agentType : t \in {u \in requests[r].timers : u.cb = "spawn"}}

SignalTerms(k) ==
    CASE k = "osint" -> OsintTerms
      [] k = "geo" -> GeoTerms
      [] k = "pattern" -> PatternTerms
      [] k = "chain" -> ChainTerms

\* A signal term of kind k occurs in s, whatever the letter case.
OccursIn(k, s) == \E t \in SignalTerms(k) : includes(toLowerCase(s), t)

\* A signal term of kind k occurs in the query or in one of the answers.
Mentions(k, query, answers) ==
    OccursIn(k, query) \/ \E i \in 1..Len(answers) : OccursIn(k, answers[i])

\* Two strings that differ at most in the case of their letters.
SameButCase(a, b) ==
    /\ Len(a) = Len(b)
    /\ \A i \in 1..Len(a) :
          \/ CharAt(a, i) = CharAt(b, i)
          \/ \E j \in 1..Len(UpperChars) :
                {CharAt(a, i), CharAt(b, i)} = {CharAt(UpperChars, j), CharAt(LowerChars, j)}

SameButCaseLists(x, y) ==
    /\ Len(x) = Len(y)
    /\ \A i \in 1..Len(x) : SameButCase(x[i], y[i])

\* The event that ends a stream: the closing status of the routes (the
\* routes have no other complete or errored event).
IsTerminalEvent(e) ==
    \/ e.type \in {"complete", "errored"}
    \/ e.type = "status" /\ e.message = CompleteMessage

ContextDone(r) == requests[r].route = "context" /\ requests[r].closed

(***************************************************************************)
(* C1 -- Default dispatch: a stream whose session text holds no signal     *)
(* term of any kind spawns exactly the pattern agent, and every finished   *)
(* stream has spawned at least one specialist.                             *)
(***************************************************************************)
C1_DefaultDispatch ==
    \A r \in Requests :
        /\ (/\ ContextDone(r)
            /\ \A k \in AgentTypes : ~Mentions(k, requests[r].query, requests[r].answers))
           => Spawned(r) = {"pattern"}
        /\ requests[r].closed => Spawned(r) # {}

(***************************************************************************)
(* C2 -- Scenario A: a stream whose session text holds a jurisdiction term *)
(* and a wallet term, and no term of the other kinds, spawns the geo, the  *)
(* chain and the pattern agent.                                            *)
(***************************************************************************)
C2_ScenarioA ==
    \A r \in Requests :
        (/\ ContextDone(r)
         /\ Mentions("geo", requests[r].query, requests[r].answers)
         /\ Mentions("chain", requests[r].query, requests[r].answers)
         /\ ~Mentions("osint", requests[r].query, requests[r].answers)
         /\ ~Mentions("pattern", requests[r].query, requests[r].answers))
        => {"geo", "chain", "pattern"} \subseteq Spawned(r)

(***************************************************************************)
(* C3 -- Dispatch determinism: two requests with the same session text     *)
(* have the same dispatch set, whenever and in whatever order they were    *)
(* posted and however their timers interleave.                             *)
(***************************************************************************)
C3_DispatchDeterminism ==
    \A r1, r2 \in Requests :
        (/\ requests[r1].route = "context"
         /\ requests[r2].route = "context"
         /\ requests[r1].text = requests[r2].text)
        => /\ Dispatched(r1) = Dispatched(r2)
           /\ (requests[r1].closed /\ requests[r2].closed) => Spawned(r1) = Spawned(r2)

\* Two finished streams of one session text, from different contexts, the
\* second posted after the first was closed: both spawned the chain agent.
C3_Witness ==
    \E r1, r2 \in Requests :
        /\ r1 < r2
        /\ ContextDone(r1) /\ ContextDone(r2)
        /\ requests[r1].query # requests[r2].query
        /\ requests[r1].text = requests[r2].text
        /\ Spawned(r1) = {"chain"}

(***************************************************************************)
(* C4 -- Selection rule: a finished stream has spawned every kind of which *)
(* a signal term occurs in the query or in an answer, whatever the letter  *)
(* case; the dispatch set of a context that differs from the request's     *)
(* only in letter case is the set the request spawned.                     *)
(***************************************************************************)
C4_SelectionRule ==
    \A r \in Requests :
        ContextDone(r) =>
            /\ \A k \in AgentTypes :
                   Mentions(k, requests[r].query, requests[r].answers) => k \in Spawned(r)
            /\ \A q \in WideQueries, a \in WideAnswerLists :
                   (SameButCase(q, requests[r].query) /\ SameButCaseLists(a, requests[r].answers))
                   => {t.event.agentType :
                          t \in {u \in ContextTimers(SessionText(q, a), InitialDelay) : u.cb = "spawn"}}
                      = Spawned(r)

\* A finished stream whose query holds no signal term and whose answer, in
\* capitals, holds a pattern term: the pattern agent was spawned.
C4_Witness ==
    \E r \in Requests :
        /\ ContextDone(r)
        /\ requests[r].query = "hello"
        /\ requests[r].answers = <<"UNUSUAL SPLIT">>
        /\ Spawned(r) = {"pattern"}

(***************************************************************************)
(* C5 -- No duplicate active dispatch: for each session and each kind at   *)
(* most one stream has the kind spawned and not yet finished, and at most  *)
(* one spawn event for the kind is produced.                               *)
(***************************************************************************)
C5_NoDuplicateDispatch ==
    \A i \in 1..Len(SessionIds), k \in AgentTypes :
        LET mine == {r \in Requests : requests[r].sessionId = SessionIds[i]}
        IN /\ Cardinality({r \in mine : k \in Spawned(r) /\ ~requests[r].closed}) <= 1
           /\ Cardinality({r \in mine : k \in Spawned(r)}) <= 1
           /\ \A r \in mine : SpawnCount(r, k) <= 1

HasSession == home.session # NoSession

\* Nothing is left that acts without the user: no timer, no request in
\* flight, no open stream.
Quiescent ==
    /\ home.timers = << >>
    /\ ~home.isLoading
    /\ \A i \in 1..Len(home.streams) : home.streams[i] # "open"

\* The canvas is shown and each stream it started was read to its end.
StreamsEnded ==
    /\ CanvasShown(home)
    /\ home.streams # << >>
    /\ \A i \in 1..Len(home.streams) : home.streams[i] = "done"

\* The stage of the lifecycle the home page has its session in: the
\* questions are being asked (stages 1 and 2), all are answered and the
\* launch is awaited (stage 4), the canvas runs the investigation.
Lifecycle(h) ==
    IF h.currentView = "investigation"
    THEN IF h.investigation # NoInvestigation /\ h.investigation.status = "completed"
         THEN "complete"
         ELSE "running"
    ELSE IF h.session.stage = 4 THEN "dispatching"
    ELSE "collecting-context"

Rank(stage) ==
    CASE stage = "collecting-context" -> 1
      [] stage = "dispatching" -> 2
      [] stage = "running" -> 3
      [] stage = "complete" -> 4

(***************************************************************************)
(* C7 -- Session completion: once the stream of a started investigation    *)
(* has ended and nothing is left to run, the investigation is completed:   *)
(* it does not stay in status running.                                     *)
(***************************************************************************)
C7_SessionCompletion ==
    (StreamsEnded /\ Quiescent) => home.investigation.status = "completed"

(***************************************************************************)
(* C8 -- Answer after context collection: an answer for a session whose    *)
(* questions are all answered is not recorded, so a session never holds    *)
(* more answers than it has questions.                                     *)
(***************************************************************************)
C8_AnswerAfterContextCollection ==
    HasSession => Len(home.session.answers) <= Len(home.session.questions)

(***************************************************************************)
(* C9 -- Lifecycle order: in every step that keeps the session, the        *)
(* session stays in its stage or moves to the next one of                  *)
(* collecting-context, dispatching, running, complete; no stage is         *)
(* skipped and none is gone back to.                                       *)
(***************************************************************************)
C9_LifecycleOrder ==
    [][(/\ HasSession
        /\ home'.session # NoSession
        /\ home'.session.sessionId = home.session.sessionId)
          => Rank(Lifecycle(home')) \in {Rank(Lifecycle(home)), Rank(Lifecycle(home)) + 1}]_vars

(***************************************************************************)
(* C10 -- End of context collection: a session whose questions are all     *)
(* answered (none, if it has no questions) is in the dispatching stage,    *)
(* and a session still collecting context has a question to put: it never  *)
(* waits for an answer to a question it does not have.                     *)
(***************************************************************************)
C10_EndOfContextCollection ==
    HasSession =>
        /\ Len(home.session.answers) >= Len(home.session.questions) => home.session.stage = 4
        /\ home.session.stage \in {1, 2} =>
              /\ home.session.currentQuestionIndex < Len(home.session.questions)
              /\ Len(home.session.answers) = home.session.currentQuestionIndex

\* The final question has just been answered: the session is dispatching
\* and the launch of the investigation is set.
C10_Witness ==
    /\ FlowMounted(home)
    /\ home.session.stage = 4
    /\ Len(home.session.answers) = Len(home.session.questions)
    /\ \E i \in 1..Len(home.timers) : home.timers[i].cb = "launch"

(***************************************************************************)
(* What the claims speak of, read off the follow-up route.                 *)
(***************************************************************************)
Responded == {i \in 1..Len(server.followUps) : server.followUps[i].state = "responded"}
Created == {i \in Responded : server.followUps[i].response.status = 200}

\* The reply the generator is asked for: four questions of four options.
WellFormed(reply) ==
    /\ reply.kind = "array"
    /\ Len(reply.parsed) = 4
    /\ \A k \in 1..Len(reply.parsed) : reply.parsed[k].options = 4

(***************************************************************************)
(* C11 -- Empty query: no entry point starts an investigation stream for   *)
(* an empty query: a request to the context route whose query is empty     *)
(* gets no event and no timer.                                             *)
(***************************************************************************)
C11_EmptyQuery ==
    \A r \in Requests :
        (requests[r].route = "context" /\ requests[r].query = "")
        => (requests[r].enqueued = << >> /\ requests[r].timers = {})

(***************************************************************************)
(* C12 -- Session id uniqueness: two successful session creations return   *)
(* different session ids, whenever they are answered.                      *)
(***************************************************************************)
C12_SessionIdUniqueness ==
    \A i, j \in Created :
        i # j => server.followUps[i].response.session_id # server.followUps[j].response.session_id

IsPrefix(a, b) == Len(a) <= Len(b) /\ a = SubSeq(b, 1, Len(a))

\* The events of the session the hook holds: its messages but for the
\* error messages the hook makes itself.
Observed == SelectSeq(hook.messages, LAMBDA m : m.type # "error")

(***************************************************************************)
(* C14 -- Event ordering: what the observer holds is, in order and without *)
(* gap or repetition, the beginning of the event sequence of a stream: the *)
(* k-th event it holds is the k-th event of the stream (events carry no    *)
(* sequence number or gap marker; the position in the stream stands for    *)
(* the number).                                                            *)
(***************************************************************************)
C14_EventOrdering ==
    hook.streams # << >> =>
        \E i \in 1..Len(hook.streams) : IsPrefix(Observed, hook.streams[i].events)

(***************************************************************************)
(* C15 -- Append-only events: every step leaves the messages the observer  *)
(* holds in place and at most appends to them, the start of another stream *)
(* included.                                                               *)
(***************************************************************************)
C15_AppendOnly == [][IsPrefix(hook.messages, hook'.messages)]_vars

(***************************************************************************)
(* C16 -- Abort: the step that aborts a running investigation (Back on the *)
(* canvas, which resets the home page) leaves the investigation completed  *)
(* and not running.                                                        *)
(***************************************************************************)
C16_Abort ==
    [][(CanvasShown(home) /\ home'.session = NoSession /\ home'.currentView = "input")
          => (home'.investigation # NoInvestigation /\ home'.investigation.status = "completed")]_vars

(***************************************************************************)
(* What the claims speak of, read off the aggregation.                     *)
(***************************************************************************)
\* The tasks are those of the report: its weights, its four scores.
MatchesReport(a) ==
    /\ a.weights = ReportWeights
    /\ \A k \in AgentTypes : /\ a.tasks[k].status = "succeeded"
                              /\ a.tasks[k].score = ReportMatrix[Category(k)].score

\* Four succeeded tasks with sub-scores 90, 90, 90, 85 and equal weights.
ScenarioB(a) ==
    /\ a.weights = EqualWeights
    /\ SucceededTasks(a) = AgentTypes
    /\ a.tasks["chain"].score = 85
    /\ \A k \in AgentTypes \ {"chain"} : a.tasks[k].score = 90

(***************************************************************************)
(* C18 -- Overall score: the overall score is the sum over the weight      *)
(* table of category score times weight; four tasks of 90, 90, 90, 85 and  *)
(* equal weights give 88.75, and the total the report states for its       *)
(* matrix is the sum of the matrix's rows.                                 *)
(***************************************************************************)
C18_OverallScore ==
    /\ ScenarioB(agg) => OverallScore(agg) = 8875
    /\ MatchesReport(agg) => OverallScore(agg) = ReportTotal

(***************************************************************************)
(* C19 -- Recommendation thresholds: the recommendation for a score is     *)
(* file from 75 up, monitor from 40 up to but not 75, clear below 40: 75.0 *)
(* gives file, 74.999 monitor, 40.0 monitor, 39.999 clear; the score of    *)
(* every reachable aggregate is recommended so, and the report's score of  *)
(* 82.75 carries the report's recommendation to file.                      *)
(***************************************************************************)
C19_RecommendationThresholds ==
    /\ Recommendation(75000) = "file"
    /\ Recommendation(74999) = "monitor"
    /\ Recommendation(40000) = "monitor"
    /\ Recommendation(39999) = "clear"
    /\ LET s == OverallScore(agg) * 10
       IN /\ Recommendation(s) = "file" <=> s >= 75000
          /\ Recommendation(s) = "monitor" <=> (40000 <= s /\ s < 75000)
          /\ Recommendation(s) = "clear" <=> s < 40000
    /\ Recommendation(ReportTotal * 10) = ReportRecommendation

\* An aggregate whose overall score is exactly 75.00 is recommended to file.
C19_Witness ==
    /\ OverallScore(agg) = 7500
    /\ Recommendation(OverallScore(agg) * 10) = "file"

\* Two tasks dispatched: one timed out, the other in the given status.
TwoTasks(a, other) ==
    /\ Cardinality(DispatchedTasks(a)) = 2
    /\ \E k \in DispatchedTasks(a) :
          /\ a.tasks[k].status = "timed-out"
          /\ \A j \in DispatchedTasks(a) \ {k} : a.tasks[j].status = other

C21_Confidence ==
    /\ DispatchedTasks(agg) # {}
       => Confidence(agg) = (100 * Cardinality(SucceededTasks(agg)))
                            \div Cardinality(DispatchedTasks(agg))
    /\ ConfidenceLevel(agg) = "Low" <=> Confidence(agg) < 50
    /\ ConfidenceLevel(agg) = "High" <=> Confidence(agg) >= 90
    /\ (2 * Cardinality(SucceededTasks(agg)) = Cardinality(DispatchedTasks(agg))
        /\ DispatchedTasks(agg) # {}) => ConfidenceLevel(agg) = "Medium"
    /\ MatchesReport(agg)
       => /\ Confidence(agg) = ReportConfidencePercent
          /\ LevelOf(ReportConfidencePercent) = ReportConfidence

\* The sum of a weight table, in percent.
WeightSum(w) == w["osint"] + w["geo"] + w["pattern"] + w["chain"]

(***************************************************************************)
(* C22 -- Weight invariant: in every reachable state the weights are a     *)
(* configured table that sums to 100%, and no step changes them.           *)
(***************************************************************************)
C22_WeightInvariant ==
    /\ [](agg.weights \in {ReportWeights, EqualWeights} /\ WeightSum(agg.weights) = 100)
    /\ [][agg'.weights = agg.weights]_vars

\* The report's weights, after tasks were dispatched and have ended.
C22_Witness ==
    /\ agg.weights = [k \in AgentTypes |-> ReportMatrix[Category(k)].weight]
    /\ WeightSum(agg.weights) = 100
    /\ \E k \in AgentTypes : agg.tasks[k].status = "failed"
    /\ \E k \in AgentTypes : agg.tasks[k].status = "succeeded"

(***************************************************************************)
(* C23 -- Update follows spawn: every agent_update event of a stream is    *)
(* preceded in that stream by a spawn_agent event for the same agent.      *)
(***************************************************************************)
C23_UpdateFollowsSpawn ==
    \A r \in Requests :
        LET q == requests[r].enqueued
        IN \A i \in 1..Len(q) :
               q[i].type = "agent_update"
               => \E j \in 1..(i - 1) :
                      q[j].type = "spawn_agent" /\ q[j].agentType = q[i].agentId

(***************************************************************************)
(* C26 -- Streaming flag under overlap: isStreaming is true whenever a     *)
(* startStream call is still reading its response, and once a later        *)
(* startStream has reset the messages no event of an earlier stream is     *)
(* appended to them.                                                       *)
(***************************************************************************)
C26_StreamingFlagUnderOverlap ==
    /\ []((\E i \in 1..Len(hook.streams) : hook.streams[i].state = "open") => hook.isStreaming)
    /\ [][(\E i \in 1..Len(hook.streams) :
              /\ i < Len(hook.streams)
              /\ Len(hook'.streams) = Len(hook.streams)
              /\ hook'.streams[i].read > hook.streams[i].read)
          => hook'.messages = hook.messages]_vars

(***************************************************************************)
(* C27 -- View needs a session: whenever the home page shows the           *)
(* investigation view its session is not null, however answering, closing *)
(* the question flow and the delayed timers interleave.                    *)
(***************************************************************************)
C27_ViewNeedsSession == home.currentView = "investigation" => home.session # NoSession

(***************************************************************************)
(* C29 -- Terminal status is last: the first event of a stream is the      *)
(* 'Starting investigation' status; 'Investigation complete' is enqueued   *)
(* at most once, after every spawn and update, a closed stream holds it    *)
(* as its last event and has no timer left, and nothing is enqueued on a   *)
(* closed stream.                                                          *)
(***************************************************************************)
C29_TerminalStatusIsLast ==
    \A r \in Requests :
        LET req == requests[r]
            q == req.enqueued
            completes == {i \in 1..Len(q) : q[i] = StatusEvent(CompleteMessage)}
        IN req.route # "none"
           => /\ Len(q) >= 1
              /\ q[1] = IF req.route = "context"
                        THEN StatusEvent("Starting investigation: " \o req.query)
                        ELSE StatusEvent("Starting investigation on "
                                         \o ToString(Len(req.transactions)) \o " transactions")
              /\ Cardinality(completes) <= 1
              /\ \A i \in completes :
                     /\ i = Len(q)
                     /\ req.closed
                     /\ \A t \in req.timers : t.cb \notin {"spawn", "update"}
              /\ req.closed => (completes = {Len(q)} /\ req.timers = {})
              /\ req.thrown = 0

\* A closed stream of the context route whose chain update, the latest of
\* the updates, came before the closing status.
C29_Witness ==
    \E r \in Requests :
        LET q == requests[r].enqueued
        IN /\ requests[r].route = "context"
           /\ requests[r].closed
           /\ Len(q) >= 3
           /\ q[Len(q) - 1].type = "agent_update"
           /\ q[Len(q) - 1].agentId = "chain"
           /\ q[Len(q)] = StatusEvent(CompleteMessage)

(***************************************************************************)
(* What the claims speak of, read off the canvas.                          *)
(***************************************************************************)
\* The spawn_agent messages for agent type k the hook holds.
SpawnMessages(k) ==
    {i \in 1..Len(canvas.messages) :
        canvas.messages[i].type = "spawn_agent" /\ canvas.messages[i].agentType = k}

\* The nodes the canvas added for agent type k.
SpawnedNodes(k) == {i \in 1..Len(canvas.nodes) : canvas.nodes[i].type = k}

(***************************************************************************)
(* C24 -- Update reaches its node: when the canvas holds a node for a      *)
(* spawn of agent type X and the message it handled last is an             *)
(* agent_update whose agentId is X, that node has the status, the findings *)
(* and the risk level of the update.                                       *)
(***************************************************************************)
C24_UpdateReachesItsNode ==
    canvas.messages # << >> =>
        LET lastMessage == canvas.messages[Len(canvas.messages)]
        IN lastMessage.type = "agent_update" =>
               \A i \in SpawnedNodes(lastMessage.agentId) :
                   /\ canvas.nodes[i].status = lastMessage.status
                   /\ canvas.nodes[i].findings = lastMessage.findings
                   /\ lastMessage.riskLevel # "" => canvas.nodes[i].riskLevel = lastMessage.riskLevel

(***************************************************************************)
(* C25 -- No event lost by the canvas: every spawn_agent message the hook  *)
(* holds has exactly one node and one edge from its parent on the canvas,  *)
(* also when several messages were appended between two runs of the        *)
(* effect.                                                                 *)
(***************************************************************************)
C25_NoEventLost ==
    \A k \in AgentTypes :
        /\ Cardinality(SpawnedNodes(k)) = Cardinality(SpawnMessages(k))
        /\ \A i \in SpawnedNodes(k) :
               Cardinality({e \in 1..Len(canvas.edges) :
                               /\ canvas.edges[e].target = canvas.nodes[i].id
                               /\ canvas.edges[e].source = "orchestrator"}) = 1

(***************************************************************************)
(* What the claims speak of, read off the reader.                          *)
(***************************************************************************)
\* The events of the parts whose data line, newline included, lies within
\* the first pos characters of the body, in the order the server wrote them.
RECURSIVE Arrived(_, _, _)
Arrived(parts, pos, i) ==
    IF i > Len(parts) THEN << >>
    ELSE (IF parts[i].event # NoEvent /\ Len(Wire(SubSeq(parts, 1, i))) - 1 <= pos
          THEN <<parts[i].event>> ELSE << >>)
         \o Arrived(parts, pos, i + 1)

Returned == reader.state \in {"done", "fetch-failed", "no-body", "read-failed"}

(***************************************************************************)
(* C28 -- Chunk independence of the SSE reader: however the body is cut    *)
(* into chunks, the messages are the payloads of the data lines whose      *)
(* newline has arrived, in order and each once; when the body has been     *)
(* read to its end they are the payloads of all its data lines.            *)
(***************************************************************************)
C28_ChunkIndependence ==
    /\ reader.state \in {"reading", "done"}
       => reader.messages = Arrived(reader.parts, reader.pos, 1)
    /\ reader.state = "done"
       => reader.messages = Arrived(reader.parts, Len(Wire(reader.parts)), 1)

\* A chunk ended inside a data line: the head of the line waits in the
\* buffer, the lines before it are parsed.
C28_Witness ==
    /\ reader.state = "reading"
    /\ startsWith(reader.buffer, "data: {")
    /\ Len(reader.messages) >= 2

(***************************************************************************)
(* C30 -- Reader error handling: a data line that is not JSON is skipped   *)
(* and every later event is still appended; a failed fetch or a response   *)
(* without a body appends exactly one message of type error; isStreaming   *)
(* is false once startStream has returned.                                 *)
(***************************************************************************)
C30_ReaderErrorHandling ==
    LET errors == {i \in 1..Len(reader.messages) : reader.messages[i].type = "error"}
    IN /\ Returned => ~reader.isStreaming
       /\ reader.state = "done"
          => /\ errors = {}
             /\ \A i \in 1..Len(reader.parts) :
                    reader.parts[i].event # NoEvent
                    => \E m \in 1..Len(reader.messages) : reader.messages[m] = reader.parts[i].event
       /\ reader.state \in {"fetch-failed", "no-body"}
          => (Len(reader.messages) = 1 /\ errors = {1})
       /\ reader.state = "read-failed" => errors = {Len(reader.messages)}
       /\ reader.state \in {"fetching", "reading"} => errors = {}

\* A body with a bad data line read to its end: the events after the bad
\* line are among the messages.
C30_Witness ==
    /\ reader.state = "done"
    /\ ~reader.isStreaming
    /\ \E i \in 1..Len(reader.parts) :
          /\ reader.parts[i] = Bad
          /\ i > 1
          /\ reader.parts[i + 1].event = reader.messages[i]

====
